---- MODULE Spec2Model ----
(***************************************************************************)
(* Debate simulator: the resilient completion call of the two server      *)
(* variants.                                                              *)
(*   callGroq       (Groq server)       retry loop + recursive fallback   *)
(*   callOpenRouter (OpenRouter server) recursive retry, no fallback      *)
(* One behaviour is one top-level invocation of one of the two.           *)
(***************************************************************************)
EXTENDS Integers, Sequences, FiniteSets, TLC

VARIABLES
    variant,            \* which server file runs: "groq" | "openrouter"
    startModel,         \* the `model` argument of the top-level invocation
    stack,              \* activation records of callGroq / callOpenRouter, top last
    pc,                 \* position of the top activation: fetch | await | delay | done
    delayMs,            \* argument of the pending delay(ms), 0 when none
    result,             \* what the top-level invocation settled with
    calls,              \* history: number of remote calls issued
    callsTo,            \* history: remote calls issued per alias
    transportFailures,  \* history: number of remote calls that ended in a transport failure
    rejectedBy,         \* history: aliases that answered 404/429/503, in order
    lastCall,           \* history: model and outcome of the latest remote call
    waitedOn,           \* history: total backoff wait spent per alias (ms)
    \* --- the server around the call: app.post('/api/debate') ---
    now,                \* Date.now() read by the request handler
    debateRateLimiter,  \* Map: client ip -> [count, timestamp]
    apiKeyConfigured,   \* whether GROQ_API_KEY / OPENROUTER_API_KEY is set
    req,                \* the request being handled: [ip, topic, rounds, responseLength, model]
    hpc,                \* position of the handler: idle | awaitPro | awaitCon | responded
    round,              \* loop variable i of the handler
    proResponse,        \* proResponse of the current round
    debateRounds,       \* debateRounds
    context,            \* context: the rounds appended to the topic header so far
    prompt,             \* prompt of the orchestrator call in progress
    res,                \* the HTTP response sent, NoResponse before
    orchCalls,          \* history: orchestrator calls started by the handler
    issuedPrompts,      \* history: the prompts of the orchestrator calls, in order
    faultsBefore,       \* history: remote calls of earlier orchestrator calls that did not answer with text
    cur,                \* which of two concurrent calls owns the call variables
    parked,             \* the suspended activation chain of the other call
    \* --- the browser client of one page: startDebate ---
    isDebating,         \* isDebating
    controlsEnabled,    \* startDebateBtn enabled and controlPanel taking pointer events
    statusType,         \* class of statusMessage: hidden | error | loading | success
    activations,        \* the startDebate activations suspended at an await
    debatesStarted,     \* history: activations that got past the isDebating check
    ignoredTriggers,    \* history: triggers that returned because a debate was running
    lastOutcome         \* history: how the latest finished activation ended

\* The variables of one orchestrator call.
cvars == <<variant, startModel, stack, pc, delayMs, result, calls, callsTo,
           transportFailures, rejectedBy, lastCall, waitedOn>>
\* The variables of the request handler.
hvars == <<now, debateRateLimiter, apiKeyConfigured, req, hpc, round, proResponse,
           debateRounds, context, prompt, res, orchCalls, issuedPrompts, faultsBefore>>
\* The variables of the interleaving of two calls.
ivars == <<cur, parked>>
\* The variables of the browser client.
bvars == <<isDebating, controlsEnabled, statusType, activations, debatesStarted,
           ignoredTriggers, lastOutcome>>
svars == <<hvars, ivars, bvars>>
vars == <<cvars, svars>>

(***************************************************************************)
(* Program constants                                                      *)
(***************************************************************************)
MAX_RETRIES == 3
INITIAL_RETRY_DELAY_MS == 1000

\* Own keys of FREE_MODELS in the Groq server.
FREE_MODELS == {"llama33", "llama31", "llama3", "mixtral", "gemma2", "llama32"}

MODEL_FALLBACK_ORDER == <<"llama33", "llama32", "llama3", "mixtral", "llama31", "gemma2">>

\* Own keys of FREE_MODELS in the OpenRouter server.
OR_FREE_MODELS == {"llama", "gemma", "mistral"}

\* Keys every object literal inherits from Object.prototype; the request body
\* may carry any string as `model`, these included.
InheritedKeys == {"constructor"}

\* A `model` string that is no key of the table at all.
UnknownAliases == {"unknown"}

\* Values of the `model` argument the request handler passes on.
GroqStartModels == FREE_MODELS \cup InheritedKeys \cup UnknownAliases
ORStartModels == OR_FREE_MODELS \cup UnknownAliases

Aliases == FREE_MODELS \cup OR_FREE_MODELS \cup InheritedKeys \cup UnknownAliases

\* HTTP statuses of a non-ok response and the shapes of an ok response body.
RejectStatuses == {404, 429, 503, 500}
Bodies == {"content", "noChoices", "noMessage", "noContent", "notJson"}
\* Names of the errors fetchWithTimeout rejects with: the abort of the 60 s
\* timer, and a failed connection (global fetch rejects with a TypeError).
TransportErrors == {"AbortError", "TypeError"}

NoCall == [model |-> "none", outcome |-> "none", status |-> 0]
NoResult == [type |-> "pending"]
NoRequest == [ip |-> "none"]
NoResponse == [status |-> 0]
NoPrompt == [side |-> "none"]
NoneParked == [pc |-> "none"]

\* The page as loaded: no debate running, controls enabled.
PageLoaded ==
    /\ isDebating = FALSE
    /\ controlsEnabled = TRUE
    /\ statusType = "hidden"
    /\ activations = << >>
    /\ debatesStarted = 0
    /\ ignoredTriggers = 0
    /\ lastOutcome = "none"

\* No request is being handled and no second call exists.
ServerIdle ==
    /\ PageLoaded
    /\ now = 0
    /\ debateRateLimiter = << >>
    /\ req = NoRequest
    /\ hpc = "idle"
    /\ round = 0
    /\ proResponse = "undefined"
    /\ debateRounds = << >>
    /\ context = << >>
    /\ prompt = NoPrompt
    /\ res = NoResponse
    /\ orchCalls = 0
    /\ issuedPrompts = << >>
    /\ faultsBefore = 0
    /\ cur = "A"
    /\ parked = NoneParked

(***************************************************************************)
(* Helpers                                                                *)
(***************************************************************************)
Top == stack[Len(stack)]
Pop(stk) == SubSeq(stk, 1, Len(stk) - 1)
ReplaceTop(stk, f) == [stk EXCEPT ![Len(stk)] = f]

\* Mutant: the fallback branch is entered without the registry test.
InFreeModels_Always(m) == TRUE
\* `model in FREE_MODELS`: the in operator also finds inherited keys.
InFreeModels(m) == m \in FREE_MODELS \cup InheritedKeys

\* JavaScript Set kept as its insertion-ordered element list.
SetHas(s, m) == \E i \in 1..Len(s) : s[i] = m
SetAdd(s, m) == IF SetHas(s, m) THEN s ELSE Append(s, m)
RECURSIVE NewSet(_)
NewSet(arr) == IF arr = <<>> THEN <<>>
               ELSE SetAdd(NewSet(SubSeq(arr, 1, Len(arr) - 1)), arr[Len(arr)])
ArrayFrom(s) == s

\* Mutant: the scan returns the last untried alias instead of the first.
FindFallback_Last(tried) ==
    IF \E i \in 1..Len(MODEL_FALLBACK_ORDER) : ~SetHas(tried, MODEL_FALLBACK_ORDER[i])
    THEN LET i == CHOOSE j \in 1..Len(MODEL_FALLBACK_ORDER) :
                    /\ ~SetHas(tried, MODEL_FALLBACK_ORDER[j])
                    /\ \A k \in (j + 1)..Len(MODEL_FALLBACK_ORDER) :
                          SetHas(tried, MODEL_FALLBACK_ORDER[k])
         IN MODEL_FALLBACK_ORDER[i]
    ELSE "undefined"
\* Mutant: only the model just rejected is excluded, find(m => m !== model).
FindFallback_ExcludesCurrentOnly(tried) ==
    LET current == tried[Len(tried)]
    IN IF MODEL_FALLBACK_ORDER[1] # current
       THEN MODEL_FALLBACK_ORDER[1]
       ELSE MODEL_FALLBACK_ORDER[2]
\* Mutant: the scan stops one entry short of the end of the list.
FindFallback_SkipsLast(tried) ==
    IF \E i \in 1..(Len(MODEL_FALLBACK_ORDER) - 1) : ~SetHas(tried, MODEL_FALLBACK_ORDER[i])
    THEN LET i == CHOOSE j \in 1..(Len(MODEL_FALLBACK_ORDER) - 1) :
                    /\ ~SetHas(tried, MODEL_FALLBACK_ORDER[j])
                    /\ \A k \in 1..(j - 1) : SetHas(tried, MODEL_FALLBACK_ORDER[k])
         IN MODEL_FALLBACK_ORDER[i]
    ELSE "undefined"
\* MODEL_FALLBACK_ORDER.find(m => !triedModelsSet.has(m)); "undefined" if none.
FindFallback(tried) ==
    IF \E i \in 1..Len(MODEL_FALLBACK_ORDER) : ~SetHas(tried, MODEL_FALLBACK_ORDER[i])
    THEN LET i == CHOOSE j \in 1..Len(MODEL_FALLBACK_ORDER) :
                    /\ ~SetHas(tried, MODEL_FALLBACK_ORDER[j])
                    /\ \A k \in 1..(j - 1) : SetHas(tried, MODEL_FALLBACK_ORDER[k])
         IN MODEL_FALLBACK_ORDER[i]
    ELSE "undefined"

\* Mutant: the retry counter is carried over from the caller's activation
\* instead of starting at 0.
GroqFrame_CarriesAttempt(model, triedModels) ==
    [model |-> model,
     attempt |-> IF triedModels = <<>> THEN 0 ELSE stack[Len(stack)].attempt,
     tried |-> NewSet(triedModels)]
\* Activation record of callGroq(prompt, personality, length, model, triedModels).
GroqFrame(model, triedModels) ==
    [model |-> model, attempt |-> 0, tried |-> NewSet(triedModels)]

\* Activation record of callOpenRouter(prompt, personality, length, model, retryCount).
ORFrame(model, retryCount) ==
    [model |-> model, attempt |-> retryCount, tried |-> <<>>]

\* Error values.
ApiError(model, status) ==
    [name |-> "Error", code |-> "none", kind |-> "rejection", status |-> status,
     model |-> model]
\* Mutant: reading the missing field throws a TypeError, as an unguarded
\* property access does.
MissingContentError_AsTypeError(model) ==
    [name |-> "TypeError", code |-> "none", kind |-> "malformed", status |-> 200,
     model |-> model]
MissingContentError(model) ==
    [name |-> "Error", code |-> "none", kind |-> "malformed", status |-> 200,
     model |-> model]
JsonSyntaxError(model) ==
    [name |-> "SyntaxError", code |-> "none", kind |-> "malformed", status |-> 200,
     model |-> model]
PropertyTypeError(model) ==
    [name |-> "TypeError", code |-> "none", kind |-> "malformed", status |-> 200,
     model |-> model]
TransportError(model, name) ==
    [name |-> name, code |-> "none", kind |-> "transport", status |-> 0,
     model |-> model]

\* Mutant: every caught error is taken for a network error.
IsNetworkError_AnyError(error) == error.name \in {"AbortError", "TypeError", "Error", "SyntaxError"}
IsNetworkError(error) ==
    \/ error.name = "AbortError"
    \/ error.name = "TypeError"
    \/ error.code = "UND_ERR_CONNECT_TIMEOUT"
    \/ error.code = "ECONNREFUSED"
    \/ error.code = "ETIMEDOUT"

\* Mutant: linear instead of exponential backoff.
BackoffDelay_Linear(attempt) == INITIAL_RETRY_DELAY_MS * (attempt + 1)
BackoffDelay(attempt) == INITIAL_RETRY_DELAY_MS * (2 ^ attempt)

Text(model) == <<"content", model>>
Returned(value, model) == [type |-> "return", value |-> value, model |-> model]
Thrown(error) == [type |-> "throw", error |-> error]

\* Mutant: the last attempt is taken to be the one before MAX_RETRIES.
RECURSIVE CatchGroq_OffByOne(_, _)
CatchGroq_OffByOne(stk, error) ==
    IF stk = <<>>
    THEN [stack |-> <<>>, pc |-> "done", delayMs |-> 0, result |-> Thrown(error)]
    ELSE LET isLastAttempt == stk[Len(stk)].attempt = MAX_RETRIES - 1
         IN IF IsNetworkError(error) /\ ~isLastAttempt
            THEN [stack |-> stk, pc |-> "delay",
                  delayMs |-> BackoffDelay(stk[Len(stk)].attempt),
                  result |-> NoResult]
            ELSE CatchGroq_OffByOne(Pop(stk), error)
\* The catch block of callGroq, run in the activation on top of stk and then,
\* when it rethrows, in each caller below it (the recursive call is awaited
\* inside the caller's try block).
RECURSIVE CatchGroq(_, _)
CatchGroq(stk, error) ==
    IF stk = <<>>
    THEN [stack |-> <<>>, pc |-> "done", delayMs |-> 0, result |-> Thrown(error)]
    ELSE LET isLastAttempt == stk[Len(stk)].attempt = MAX_RETRIES
         IN IF IsNetworkError(error) /\ ~isLastAttempt
            THEN [stack |-> stk, pc |-> "delay",
                  delayMs |-> BackoffDelay(stk[Len(stk)].attempt),
                  result |-> NoResult]
            ELSE CatchGroq(Pop(stk), error)

\* The catch block of callOpenRouter; a rethrow passes through every caller,
\* each of which returned the recursive call from its own catch block.
CatchOR(stk, error) ==
    IF IsNetworkError(error) /\ stk[Len(stk)].attempt < MAX_RETRIES
    THEN [stack |-> stk, pc |-> "delay",
          delayMs |-> BackoffDelay(stk[Len(stk)].attempt),
          result |-> NoResult]
    ELSE [stack |-> <<>>, pc |-> "done", delayMs |-> 0, result |-> Thrown(error)]

(***************************************************************************)
(* Initial state: a top-level invocation has just been entered.           *)
(***************************************************************************)
Init ==
    /\ variant \in {"groq", "openrouter"}
    /\ startModel \in (IF variant = "groq" THEN GroqStartModels ELSE ORStartModels)
    /\ stack = IF variant = "groq" THEN <<GroqFrame(startModel, <<>>)>>
                                   ELSE <<ORFrame(startModel, 0)>>
    /\ pc = "fetch"
    /\ delayMs = 0
    /\ result = NoResult
    /\ calls = 0
    /\ callsTo = [m \in Aliases |-> 0]
    /\ transportFailures = 0
    /\ rejectedBy = <<>>
    /\ lastCall = NoCall
    /\ waitedOn = [m \in Aliases |-> 0]
    /\ ServerIdle
    /\ apiKeyConfigured = TRUE

(***************************************************************************)
(* Actions                                                                *)
(***************************************************************************)
Settle(next) ==
    /\ stack' = next.stack
    /\ pc' = next.pc
    /\ delayMs' = next.delayMs
    /\ result' = next.result

\* The loop test and the remote call: one POST to the completion endpoint.
FetchWithTimeout ==
    /\ pc = "fetch"
    /\ Top.attempt <= MAX_RETRIES
    /\ pc' = "await"
    /\ calls' = calls + 1
    /\ callsTo' = [callsTo EXCEPT ![Top.model] = @ + 1]
    /\ UNCHANGED <<variant, startModel, stack, delayMs, result,
                   transportFailures, rejectedBy, lastCall, waitedOn>>
    /\ UNCHANGED svars

\* callGroq: the response is not ok.
GroqRejected(status) ==
    /\ variant = "groq"
    /\ pc = "await"
    /\ LET model == Top.model
           eligible == status \in {404, 429, 503}
           canFallback == eligible /\ InFreeModels(model) /\ ~SetHas(Top.tried, model)
           triedModelsSet == IF canFallback THEN SetAdd(Top.tried, model) ELSE Top.tried
           fallbackModel == FindFallback(triedModelsSet)
           stk == ReplaceTop(stack, [Top EXCEPT !.tried = triedModelsSet])
       IN /\ lastCall' = [model |-> model, outcome |-> "rejected", status |-> status]
          /\ rejectedBy' = IF eligible THEN Append(rejectedBy, model) ELSE rejectedBy
          /\ IF canFallback /\ fallbackModel # "undefined"
             THEN Settle([stack |-> Append(stk, GroqFrame(fallbackModel, ArrayFrom(triedModelsSet))),
                          pc |-> "fetch", delayMs |-> 0, result |-> NoResult])
             ELSE Settle(CatchGroq(stk, ApiError(model, status)))
    /\ UNCHANGED <<variant, startModel, calls, callsTo, transportFailures, waitedOn>>
    /\ UNCHANGED svars

\* callGroq: the response is ok; its body is parsed and validated.
GroqSuccess(body) ==
    /\ variant = "groq"
    /\ pc = "await"
    /\ LET model == Top.model
       IN /\ lastCall' = [model |-> model, outcome |-> body, status |-> 200]
          /\ IF body = "content"
             THEN Settle([stack |-> stack, pc |-> "done", delayMs |-> 0,
                          result |-> Returned(Text(model), model)])
             ELSE IF body = "notJson"
             THEN Settle(CatchGroq(stack, JsonSyntaxError(model)))
             ELSE Settle(CatchGroq(stack, MissingContentError(model)))
    /\ UNCHANGED <<variant, startModel, calls, callsTo, transportFailures,
                   rejectedBy, waitedOn>>
    /\ UNCHANGED svars

\* callGroq: fetchWithTimeout rejects (timeout abort or failed connection).
GroqTransportFailure(name) ==
    /\ variant = "groq"
    /\ pc = "await"
    /\ lastCall' = [model |-> Top.model, outcome |-> "transport", status |-> 0]
    /\ transportFailures' = transportFailures + 1
    /\ Settle(CatchGroq(stack, TransportError(Top.model, name)))
    /\ UNCHANGED <<variant, startModel, calls, callsTo, rejectedBy, waitedOn>>
    /\ UNCHANGED svars

\* Mutant: the promise of delay(ms) is never resolved.
GroqDelayElapsed_NeverResolved ==
    /\ variant = "groq"
    /\ pc = "delay"
    /\ delayMs < 0
    /\ UNCHANGED vars
\* callGroq: the backoff delay elapses; attempt++ and the loop continues.
GroqDelayElapsed ==
    /\ variant = "groq"
    /\ pc = "delay"
    /\ stack' = ReplaceTop(stack, [Top EXCEPT !.attempt = @ + 1])
    /\ pc' = "fetch"
    /\ delayMs' = 0
    /\ waitedOn' = [waitedOn EXCEPT ![Top.model] = @ + delayMs]
    /\ UNCHANGED <<variant, startModel, result, calls, callsTo,
                   transportFailures, rejectedBy, lastCall>>
    /\ UNCHANGED svars

\* callOpenRouter: the response is not ok.
ORRejected(status) ==
    /\ variant = "openrouter"
    /\ pc = "await"
    /\ lastCall' = [model |-> Top.model, outcome |-> "rejected", status |-> status]
    /\ rejectedBy' = IF status \in {404, 429, 503} THEN Append(rejectedBy, Top.model)
                                                    ELSE rejectedBy
    /\ Settle(CatchOR(stack, ApiError(Top.model, status)))
    /\ UNCHANGED <<variant, startModel, calls, callsTo, transportFailures, waitedOn>>
    /\ UNCHANGED svars

\* callOpenRouter: the response is ok; data.choices[0].message.content is
\* read without any check.
ORSuccess(body) ==
    /\ variant = "openrouter"
    /\ pc = "await"
    /\ LET model == Top.model
       IN /\ lastCall' = [model |-> model, outcome |-> body, status |-> 200]
          /\ IF body = "content"
             THEN Settle([stack |-> stack, pc |-> "done", delayMs |-> 0,
                          result |-> Returned(Text(model), model)])
             ELSE IF body = "noContent"
             THEN Settle([stack |-> stack, pc |-> "done", delayMs |-> 0,
                          result |-> Returned("undefined", model)])
             ELSE IF body = "notJson"
             THEN Settle(CatchOR(stack, JsonSyntaxError(model)))
             ELSE Settle(CatchOR(stack, PropertyTypeError(model)))
    /\ UNCHANGED <<variant, startModel, calls, callsTo, transportFailures,
                   rejectedBy, waitedOn>>
    /\ UNCHANGED svars

\* callOpenRouter: fetchWithTimeout rejects.
ORTransportFailure(name) ==
    /\ variant = "openrouter"
    /\ pc = "await"
    /\ lastCall' = [model |-> Top.model, outcome |-> "transport", status |-> 0]
    /\ transportFailures' = transportFailures + 1
    /\ Settle(CatchOR(stack, TransportError(Top.model, name)))
    /\ UNCHANGED <<variant, startModel, calls, callsTo, rejectedBy, waitedOn>>
    /\ UNCHANGED svars

\* callOpenRouter: the backoff delay elapses; the function calls itself with
\* retryCount + 1.
ORDelayElapsed ==
    /\ variant = "openrouter"
    /\ pc = "delay"
    /\ stack' = Append(stack, ORFrame(Top.model, Top.attempt + 1))
    /\ pc' = "fetch"
    /\ delayMs' = 0
    /\ waitedOn' = [waitedOn EXCEPT ![Top.model] = @ + delayMs]
    /\ UNCHANGED <<variant, startModel, result, calls, callsTo,
                   transportFailures, rejectedBy, lastCall>>
    /\ UNCHANGED svars

Next ==
    \/ FetchWithTimeout
    \/ \E status \in RejectStatuses : GroqRejected(status)
    \/ \E body \in Bodies : GroqSuccess(body)
    \/ \E name \in TransportErrors : GroqTransportFailure(name)
    \/ GroqDelayElapsed
    \/ \E status \in RejectStatuses : ORRejected(status)
    \/ \E body \in Bodies : ORSuccess(body)
    \/ \E name \in TransportErrors : ORTransportFailure(name)
    \/ ORDelayElapsed

Spec == Init /\ [][Next]_vars

\* Scheduling the runtime guarantees: code that can run does run, the 60 s
\* timer of fetchWithTimeout aborts a request that is still in flight, and
\* the timer of delay(ms) fires.
FairSpec ==
    /\ Spec
    /\ WF_vars(FetchWithTimeout)
    /\ WF_vars(GroqTransportFailure("AbortError"))
    /\ WF_vars(ORTransportFailure("AbortError"))
    /\ WF_vars(GroqDelayElapsed)
    /\ WF_vars(ORDelayElapsed)

(***************************************************************************)
(* The request handler app.post('/api/debate') around the call            *)
(***************************************************************************)
RATE_LIMIT_WINDOW_MS == 60000
MAX_DEBATES_PER_WINDOW == 20
OR_MAX_DEBATES_PER_WINDOW == 5
MaxDebatesPerWindow ==
    IF variant = "groq" THEN MAX_DEBATES_PER_WINDOW ELSE OR_MAX_DEBATES_PER_WINDOW
MIN_ROUNDS == 1
MAX_ROUNDS == 10

\* Own keys of RESPONSE_LENGTHS.
RESPONSE_LENGTHS == {"short", "medium", "long"}

\* Remote calls that may fail to answer with text during one debate.
MaxFaults == 2

\* Request bodies the handler is driven with.
Topics == {"", " ", "AI"}
RoundsValues == {0, 1, 2, 10, 11}
LengthValues == {"short", "huge", "constructor"}
RequestModels == IF variant = "groq" THEN {"undefined", "gemma2"} ELSE {"undefined", "gemma"}
ClientIps == {"ip1"}
RequestBodies ==
    [ip : ClientIps, topic : Topics, rounds : RoundsValues,
     responseLength : LengthValues, model : RequestModels]

\* Outcomes of the remote calls of a debate.
DebateStatuses == {429, 500}
DebateBodies == {"content", "noChoices"}
DebateTransportErrors == {"AbortError"}

\* topic.trim()
Trim(topic) == IF topic = " " THEN "" ELSE topic

\* RESPONSE_LENGTHS[responseLength] is truthy: own keys, and the members every
\* object inherits.
HasResponseLength(length) == length \in RESPONSE_LENGTHS \cup InheritedKeys

\* The default value of the `model` parameter.
DefaultModel(model) ==
    IF model # "undefined" THEN model
    ELSE IF variant = "groq" THEN "llama33" ELSE "llama"

\* Clean up old entries: the Map without the entries older than the window.
CleanUp(limiter, t) ==
    [ip \in {x \in DOMAIN limiter : ~(t - limiter[x].timestamp > RATE_LIMIT_WINDOW_MS)}
        |-> limiter[ip]]
\* debateRateLimiter.get(clientIp) || { count: 0, timestamp: now }
ClientData(limiter, ip, t) ==
    IF ip \in DOMAIN limiter THEN limiter[ip] ELSE [count |-> 0, timestamp |-> t]
\* Mutant: the window still counts as running at its last millisecond.
RateLimited_Inclusive(clientData, t) ==
    /\ clientData.count >= MaxDebatesPerWindow
    /\ t - clientData.timestamp <= RATE_LIMIT_WINDOW_MS
\* The rate limit check.
RateLimited(clientData, t) ==
    /\ clientData.count >= MaxDebatesPerWindow
    /\ t - clientData.timestamp < RATE_LIMIT_WINDOW_MS
\* Update rate limit counter, and debateRateLimiter.set(clientIp, clientData).
Counted(clientData, t) ==
    IF t - clientData.timestamp > RATE_LIMIT_WINDOW_MS
    THEN [count |-> 1, timestamp |-> t]
    ELSE [clientData EXCEPT !.count = @ + 1]
MapSet(limiter, ip, clientData) ==
    [x \in DOMAIN limiter \cup {ip} |-> IF x = ip THEN clientData ELSE limiter[x]]
\* Mutant: the counter is updated before the rate limit check returns.
AfterRateLimited_Counted(limiter, ip, clientData, t) ==
    MapSet(limiter, ip, Counted(clientData, t))
\* The Map when the handler returns 429: the return comes before the update.
AfterRateLimited(limiter, ip, clientData, t) == limiter

\* Responses.
JsonError(status, error) == [status |-> status, body |-> [error |-> error]]
ErrorMessage(error) == [name |-> error.name, kind |-> error.kind, status |-> error.status]
\* Mutant: the rounds generated so far are sent along with the error.
ErrorResponse_WithRounds(error) ==
    [status |-> 500,
     body |-> [error |-> "Failed to generate debate", details |-> ErrorMessage(error),
               rounds |-> debateRounds]]
ErrorResponse(error) ==
    [status |-> 500,
     body |-> [error |-> "Failed to generate debate", details |-> ErrorMessage(error)]]
DebateResponse(body, rounds) ==
    [status |-> 200,
     body |-> [topic |-> body.topic, rounds |-> rounds, totalRounds |-> body.rounds,
               responseLength |-> body.responseLength, model |-> body.model]]

\* The validation chain; NoResponse when the request passes.
Validate(body) ==
    IF body.topic = "" \/ Trim(body.topic) = ""
    THEN JsonError(400, "Topic is required")
    ELSE IF body.rounds = 0 \/ body.rounds < MIN_ROUNDS \/ body.rounds > MAX_ROUNDS
    THEN JsonError(400, "Rounds must be between 1 and 10")
    ELSE IF ~HasResponseLength(body.responseLength)
    THEN JsonError(400, "Invalid response length")
    ELSE IF ~apiKeyConfigured
    THEN JsonError(500, "API key not configured")
    ELSE NoResponse

\* Prompts: the context (topic header and the rounds so far), the round, and
\* for Con the Pro text just received.
ProPrompt(ctx, i, topic) ==
    [side |-> "pro", round |-> i, topic |-> topic, context |-> ctx]
\* Mutant: the Con prompt quotes the Pro argument of the last finished round.
ConPrompt_StalePro(ctx, i, pro, topic) ==
    [side |-> "con", round |-> i, topic |-> topic, context |-> ctx,
     pro |-> IF ctx = << >> THEN pro ELSE ctx[Len(ctx)].pro]
ConPrompt(ctx, i, pro, topic) ==
    [side |-> "con", round |-> i, topic |-> topic, context |-> ctx, pro |-> pro]

\* The text a call resolved with: what the model generated, in answer to the
\* prompt of that call.
ResponseTo(p, r) == [of |-> <<p.side, p.round>>, text |-> r.value]

\* Mutant: the tried list of the previous call is handed to the next call.
EnterCall_KeepsTried(model) ==
    IF variant = "groq"
    THEN [startModel |-> DefaultModel(model),
          stack |-> <<GroqFrame(DefaultModel(model), rejectedBy)>>]
    ELSE [startModel |-> DefaultModel(model),
          stack |-> <<ORFrame(DefaultModel(model), 0)>>]
\* The activation the handler enters with callGroq(prompt, personality,
\* length, model) / callOpenRouter(...): the last parameter takes its default.
EnterCall(model) ==
    IF variant = "groq"
    THEN [startModel |-> DefaultModel(model),
          stack |-> <<GroqFrame(DefaultModel(model), <<>>)>>]
    ELSE [startModel |-> DefaultModel(model),
          stack |-> <<ORFrame(DefaultModel(model), 0)>>]

\* Remote calls of the current orchestrator call that have answered, but not
\* with text.
CallFaults ==
    calls - (IF pc = "await" THEN 1 ELSE 0)
          - (IF lastCall.outcome = "content" THEN 1 ELSE 0)

\* The handler calls the orchestrator with prompt p and awaits it.
StartCall(p, model) ==
    /\ startModel' = EnterCall(model).startModel
    /\ stack' = EnterCall(model).stack
    /\ pc' = "fetch"
    /\ delayMs' = 0
    /\ result' = NoResult
    /\ calls' = 0
    /\ callsTo' = [m \in Aliases |-> 0]
    /\ transportFailures' = 0
    /\ rejectedBy' = <<>>
    /\ lastCall' = NoCall
    /\ waitedOn' = [m \in Aliases |-> 0]
    /\ prompt' = p
    /\ orchCalls' = orchCalls + 1
    /\ issuedPrompts' = Append(issuedPrompts, p)
    /\ faultsBefore' = faultsBefore + CallFaults

\* A request arrives: rate limiting, validation, and the first Pro call up
\* to its first await.
HandleRequest(body) ==
    /\ hpc = "idle"
    /\ req' = body
    /\ LET cleaned == CleanUp(debateRateLimiter, now)
           clientData == ClientData(cleaned, body.ip, now)
           invalid == Validate(body)
       IN IF RateLimited(clientData, now)
          THEN /\ debateRateLimiter' = AfterRateLimited(cleaned, body.ip, clientData, now)
               /\ res' = JsonError(429, "Too many requests")
               /\ hpc' = "responded"
               /\ UNCHANGED <<cvars, round, debateRounds, context, prompt,
                              orchCalls, issuedPrompts, faultsBefore>>
          ELSE /\ debateRateLimiter' = MapSet(cleaned, body.ip, Counted(clientData, now))
               /\ IF invalid # NoResponse
                  THEN /\ res' = invalid
                       /\ hpc' = "responded"
                       /\ UNCHANGED <<cvars, round, debateRounds, context, prompt,
                                      orchCalls, issuedPrompts, faultsBefore>>
                  ELSE /\ debateRounds' = << >>
                       /\ context' = << >>
                       /\ round' = 1
                       /\ StartCall(ProPrompt(<< >>, 1, body.topic), body.model)
                       /\ hpc' = "awaitPro"
                       /\ UNCHANGED <<variant, res>>
    /\ UNCHANGED <<now, apiKeyConfigured, proResponse, ivars, bvars>>

\* The Pro call resolved: the Con call of the same round is made.
ProReturned ==
    /\ hpc = "awaitPro"
    /\ pc = "done" /\ result.type = "return"
    /\ proResponse' = ResponseTo(prompt, result)
    /\ StartCall(ConPrompt(context, round, ResponseTo(prompt, result), req.topic), req.model)
    /\ hpc' = "awaitCon"
    /\ UNCHANGED <<variant, now, debateRateLimiter, apiKeyConfigured, req, round,
                   debateRounds, context, res, ivars, bvars>>

\* Mutant: the loop ends one round early.
ConReturned_StopsEarly ==
    /\ hpc = "awaitCon"
    /\ pc = "done" /\ result.type = "return"
    /\ LET entry == [round |-> round, pro |-> proResponse,
                     con |-> ResponseTo(prompt, result)]
       IN /\ debateRounds' = Append(debateRounds, entry)
          /\ context' = Append(context, entry)
          /\ round' = round + 1
          /\ IF round + 1 < req.rounds
             THEN /\ StartCall(ProPrompt(Append(context, entry), round + 1, req.topic),
                               req.model)
                  /\ hpc' = "awaitPro"
                  /\ UNCHANGED <<variant, res>>
             ELSE /\ res' = DebateResponse(req, Append(debateRounds, entry))
                  /\ hpc' = "responded"
                  /\ UNCHANGED <<cvars, prompt, orchCalls, issuedPrompts, faultsBefore>>
    /\ UNCHANGED <<now, debateRateLimiter, apiKeyConfigured, req, proResponse, ivars, bvars>>
\* The Con call resolved: the round is recorded, the context grows, and either
\* the next round's Pro call is made or the debate is sent.
ConReturned ==
    /\ hpc = "awaitCon"
    /\ pc = "done" /\ result.type = "return"
    /\ LET entry == [round |-> round, pro |-> proResponse,
                     con |-> ResponseTo(prompt, result)]
       IN /\ debateRounds' = Append(debateRounds, entry)
          /\ context' = Append(context, entry)
          /\ round' = round + 1
          /\ IF round + 1 <= req.rounds
             THEN /\ StartCall(ProPrompt(Append(context, entry), round + 1, req.topic),
                               req.model)
                  /\ hpc' = "awaitPro"
                  /\ UNCHANGED <<variant, res>>
             ELSE /\ res' = DebateResponse(req, Append(debateRounds, entry))
                  /\ hpc' = "responded"
                  /\ UNCHANGED <<cvars, prompt, orchCalls, issuedPrompts, faultsBefore>>
    /\ UNCHANGED <<now, debateRateLimiter, apiKeyConfigured, req, proResponse, ivars, bvars>>

\* A call rejected: the handler's catch block answers 500.
CallThrew ==
    /\ hpc \in {"awaitPro", "awaitCon"}
    /\ pc = "done" /\ result.type = "throw"
    /\ res' = ErrorResponse(result.error)
    /\ hpc' = "responded"
    /\ UNCHANGED <<cvars, now, debateRateLimiter, apiKeyConfigured, req, round,
                   proResponse, debateRounds, context, prompt, orchCalls,
                   issuedPrompts, faultsBefore, ivars, bvars>>

\* No call is in progress.
CallIdle ==
    /\ startModel = "none"
    /\ stack = << >>
    /\ pc = "none"
    /\ delayMs = 0
    /\ result = NoResult
    /\ calls = 0
    /\ callsTo = [m \in Aliases |-> 0]
    /\ transportFailures = 0
    /\ rejectedBy = <<>>
    /\ lastCall = NoCall
    /\ waitedOn = [m \in Aliases |-> 0]

\* The server is up and no request has arrived yet.
DebateInit ==
    /\ variant \in {"groq", "openrouter"}
    /\ CallIdle
    /\ ServerIdle
    /\ apiKeyConfigured \in BOOLEAN

\* The remote calls of a debate: at most MaxFaults of them do not answer
\* with text.
WithinFaults == faultsBefore + CallFaults' <= MaxFaults

DebateNext ==
    \/ \E body \in RequestBodies : HandleRequest(body)
    \/ ProReturned
    \/ ConReturned
    \/ CallThrew
    \/ FetchWithTimeout /\ hpc # "idle"
    \/ \E status \in DebateStatuses : GroqRejected(status) /\ WithinFaults
    \/ \E body \in DebateBodies : GroqSuccess(body) /\ WithinFaults
    \/ \E name \in DebateTransportErrors : GroqTransportFailure(name) /\ WithinFaults
    \/ GroqDelayElapsed
    \/ \E status \in DebateStatuses : ORRejected(status) /\ WithinFaults
    \/ \E body \in DebateBodies : ORSuccess(body) /\ WithinFaults
    \/ \E name \in DebateTransportErrors : ORTransportFailure(name) /\ WithinFaults
    \/ ORDelayElapsed

SpecDebate == DebateInit /\ [][DebateNext]_vars

(***************************************************************************)
(* Two orchestrator calls of two concurrent debates. The runtime runs one *)
(* of them at a time and switches only where the running one awaits.      *)
(***************************************************************************)
\* Remote calls, of both calls together, that may fail to answer with text.
MaxConcurrentFaults == 2

ConcurrentStartModels ==
    IF variant = "groq" THEN {"llama33", "gemma2"} ELSE {"llama"}
ConcurrentStatuses == {429}
ConcurrentBodies == {"content"}
ConcurrentTransportErrors == {"AbortError"}

\* What a suspended call keeps while another one runs: the parameters and
\* locals of its activations, and what it has done so far.
Suspend ==
    [startModel |-> startModel, stack |-> stack, pc |-> pc, delayMs |-> delayMs,
     result |-> result, calls |-> calls, callsTo |-> callsTo,
     transportFailures |-> transportFailures, rejectedBy |-> rejectedBy,
     lastCall |-> lastCall, waitedOn |-> waitedOn]
\* Mutant: triedModelsSet is one module-level Set, so a resumed call finds in
\* it what the other call left there.
Resume_SharedTried(saved) ==
    IF saved.stack = << >> \/ stack = << >> THEN saved
    ELSE [saved EXCEPT !.stack[Len(saved.stack)].tried = stack[Len(stack)].tried]
\* What a call finds when it is resumed: exactly what it kept.
Resume(saved) == saved

\* An entered call that has not run yet.
EnteredCall(model) ==
    [startModel |-> EnterCall(model).startModel, stack |-> EnterCall(model).stack,
     pc |-> "fetch", delayMs |-> 0, result |-> NoResult, calls |-> 0,
     callsTo |-> [m \in Aliases |-> 0], transportFailures |-> 0,
     rejectedBy |-> <<>>, lastCall |-> NoCall, waitedOn |-> [m \in Aliases |-> 0]]

FaultsOf(c) ==
    c.calls - (IF c.pc = "await" THEN 1 ELSE 0)
            - (IF c.lastCall.outcome = "content" THEN 1 ELSE 0)

\* The running call awaits (a response or a timer) or has settled, and the
\* event loop runs the other call.
Switch ==
    /\ pc \in {"await", "delay", "done"}
    /\ parked.pc \in {"fetch", "await", "delay"}
    /\ LET r == Resume(parked)
       IN /\ startModel' = r.startModel
          /\ stack' = r.stack
          /\ pc' = r.pc
          /\ delayMs' = r.delayMs
          /\ result' = r.result
          /\ calls' = r.calls
          /\ callsTo' = r.callsTo
          /\ transportFailures' = r.transportFailures
          /\ rejectedBy' = r.rejectedBy
          /\ lastCall' = r.lastCall
          /\ waitedOn' = r.waitedOn
    /\ parked' = Suspend
    /\ cur' = IF cur = "A" THEN "B" ELSE "A"
    /\ UNCHANGED <<variant, hvars, bvars>>

ConcurrentInit ==
    /\ variant \in {"groq", "openrouter"}
    /\ ServerIdle
    /\ apiKeyConfigured = TRUE
    /\ \E a \in ConcurrentStartModels :
          /\ startModel = EnterCall(a).startModel
          /\ stack = EnterCall(a).stack
    /\ pc = "fetch"
    /\ delayMs = 0
    /\ result = NoResult
    /\ calls = 0
    /\ callsTo = [m \in Aliases |-> 0]
    /\ transportFailures = 0
    /\ rejectedBy = <<>>
    /\ lastCall = NoCall
    /\ waitedOn = [m \in Aliases |-> 0]

\* The second debate's call is entered.
SecondCallEntered(model) ==
    /\ parked = NoneParked
    /\ pc \in {"await", "delay", "done"}
    /\ parked' = EnteredCall(model)
    /\ UNCHANGED <<cvars, hvars, cur, bvars>>

WithinConcurrentFaults ==
    CallFaults' + (IF parked = NoneParked THEN 0 ELSE FaultsOf(parked))
        <= MaxConcurrentFaults

ConcurrentNext ==
    \/ \E model \in ConcurrentStartModels : SecondCallEntered(model)
    \/ Switch
    \/ FetchWithTimeout
    \/ \E status \in ConcurrentStatuses : GroqRejected(status) /\ WithinConcurrentFaults
    \/ \E body \in ConcurrentBodies : GroqSuccess(body) /\ WithinConcurrentFaults
    \/ \E name \in ConcurrentTransportErrors :
          GroqTransportFailure(name) /\ WithinConcurrentFaults
    \/ GroqDelayElapsed
    \/ \E status \in ConcurrentStatuses : ORRejected(status) /\ WithinConcurrentFaults
    \/ \E body \in ConcurrentBodies : ORSuccess(body) /\ WithinConcurrentFaults
    \/ \E name \in ConcurrentTransportErrors :
          ORTransportFailure(name) /\ WithinConcurrentFaults
    \/ ORDelayElapsed

SpecConcurrent == ConcurrentInit /\ [][ConcurrentNext]_vars

(***************************************************************************)
(* The rate limiter over many requests of several clients, with the clock  *)
(* advancing between and during requests.                                  *)
(***************************************************************************)
\* The clock stops at MaxNow; a client's count is followed up to
\* MaxOverQuota above its quota.
MaxNow == 130000
MaxOverQuota == 2

LimiterIps == {"ip1", "ip2"}
\* Clock advances: half a window, a whole window, a window and 1 ms.
Ticks == {30000, 60000, 60001}
\* One request that fails validation and one that runs a debate of one round.
LimiterBodies ==
    [ip : LimiterIps, topic : {"", "AI"}, rounds : {1},
     responseLength : {"short"}, model : {"undefined"}]

\* Date.now() has advanced by d.
Tick(d) ==
    /\ now + d <= MaxNow
    /\ now' = now + d
    /\ UNCHANGED <<cvars, debateRateLimiter, apiKeyConfigured, req, hpc, round,
                   proResponse, debateRounds, context, prompt, res, orchCalls,
                   issuedPrompts, faultsBefore, ivars, bvars>>

\* The response has been sent and the handler invocation is over; the Map
\* and the clock are what outlives it.
RequestFinished ==
    /\ hpc = "responded"
    /\ hpc' = "idle"
    /\ req' = NoRequest
    /\ res' = NoResponse
    /\ round' = 0
    /\ proResponse' = "undefined"
    /\ debateRounds' = << >>
    /\ context' = << >>
    /\ prompt' = NoPrompt
    /\ orchCalls' = 0
    /\ issuedPrompts' = << >>
    /\ faultsBefore' = 0
    /\ startModel' = "none"
    /\ stack' = << >>
    /\ pc' = "none"
    /\ delayMs' = 0
    /\ result' = NoResult
    /\ calls' = 0
    /\ callsTo' = [m \in Aliases |-> 0]
    /\ transportFailures' = 0
    /\ rejectedBy' = <<>>
    /\ lastCall' = NoCall
    /\ waitedOn' = [m \in Aliases |-> 0]
    /\ UNCHANGED <<variant, now, debateRateLimiter, apiKeyConfigured, ivars, bvars>>

LimiterInit ==
    /\ variant \in {"groq", "openrouter"}
    /\ CallIdle
    /\ ServerIdle
    /\ apiKeyConfigured = TRUE

WithinOverQuota ==
    \A ip \in DOMAIN debateRateLimiter' :
        debateRateLimiter'[ip].count <= MaxDebatesPerWindow + MaxOverQuota

LimiterNext ==
    \/ \E body \in LimiterBodies : HandleRequest(body) /\ WithinOverQuota
    \/ \E d \in Ticks : Tick(d)
    \/ RequestFinished
    \/ ProReturned
    \/ ConReturned
    \/ FetchWithTimeout /\ hpc # "idle"
    \/ GroqSuccess("content")
    \/ ORSuccess("content")

SpecLimiter == LimiterInit /\ [][LimiterNext]_vars

(***************************************************************************)
(* The browser client: the triggers of startDebate on one page and the     *)
(* activations of startDebate suspended at their awaits.                   *)
(***************************************************************************)
\* Activations begun on one page, and ignored triggers counted.
MaxDebatesStarted == 3
MaxIgnoredTriggers == 2

\* Values of the topic input when a trigger fires.
ClientTopics == {"", " ", "AI"}
\* Outcomes of the health request: key configured, not configured, or the
\* fetch or the parse of its body failed.
HealthOutcomes == {"ok", "noKey", "failed"}
\* Outcomes of the debate request: ok with a transcript of 1 or 2 rounds, ok
\* without a rounds array, a non-ok status, or a failed fetch.
ClientDebateOutcomes == {"rounds1", "rounds2", "noRounds", "notOk", "failed"}

RemoveAt(seq, i) == SubSeq(seq, 1, i - 1) \o SubSeq(seq, i + 1, Len(seq))
DebateRequestsInFlight ==
    Cardinality({i \in 1..Len(activations) : activations[i].pc = "debate"})

\* Mutant: startDebate does not look at isDebating.
AlreadyDebating_Never == FALSE
\* if (isDebating) return;
AlreadyDebating == isDebating

ClientServerIdle == UNCHANGED <<cvars, hvars, cur, parked>>

\* startDebate() up to its first await or its early return.
StartDebate(topic) ==
    IF Trim(topic) = ""
    THEN /\ statusType' = "error"
         /\ UNCHANGED <<isDebating, controlsEnabled, activations, debatesStarted,
                        ignoredTriggers, lastOutcome>>
    ELSE IF AlreadyDebating
    THEN /\ ignoredTriggers' = IF ignoredTriggers < MaxIgnoredTriggers
                               THEN ignoredTriggers + 1 ELSE ignoredTriggers
         /\ UNCHANGED <<isDebating, controlsEnabled, statusType, activations,
                        debatesStarted, lastOutcome>>
    ELSE /\ debatesStarted < MaxDebatesStarted
         /\ isDebating' = TRUE
         /\ controlsEnabled' = FALSE
         /\ statusType' = "loading"
         /\ activations' = Append(activations, [pc |-> "health", left |-> 0])
         /\ debatesStarted' = debatesStarted + 1
         /\ UNCHANGED <<ignoredTriggers, lastOutcome>>

\* The click listener of startDebateBtn runs.
Click(topic) ==
    /\ StartDebate(topic)
    /\ ClientServerIdle

\* The keypress listener of the topic input runs for the Enter key.
EnterKey(topic) ==
    /\ IF ~isDebating
       THEN StartDebate(topic)
       ELSE /\ ignoredTriggers' = IF ignoredTriggers < MaxIgnoredTriggers
                                  THEN ignoredTriggers + 1 ELSE ignoredTriggers
            /\ UNCHANGED <<isDebating, controlsEnabled, statusType, activations,
                           debatesStarted, lastOutcome>>
    /\ ClientServerIdle

\* The end of activation i: the catch block for an error, the success status
\* otherwise, and the finally block in both cases.
Finish(i, outcome) ==
    /\ statusType' = outcome
    /\ isDebating' = FALSE
    /\ controlsEnabled' = TRUE
    /\ activations' = RemoveAt(activations, i)
    /\ lastOutcome' = outcome
    /\ UNCHANGED <<debatesStarted, ignoredTriggers>>

\* The health request of activation i is answered; with the key configured
\* the debate request is sent.
HealthAnswered(i, outcome) ==
    /\ i \in 1..Len(activations)
    /\ activations[i].pc = "health"
    /\ IF outcome = "ok"
       THEN /\ activations' = [activations EXCEPT ![i].pc = "debate"]
            /\ statusType' = "loading"
            /\ UNCHANGED <<isDebating, controlsEnabled, debatesStarted,
                           ignoredTriggers, lastOutcome>>
       ELSE Finish(i, "error")
    /\ ClientServerIdle

\* The debate request of activation i is answered.
DebateAnswered(i, outcome) ==
    /\ i \in 1..Len(activations)
    /\ activations[i].pc = "debate"
    /\ IF outcome \in {"rounds1", "rounds2"}
       THEN /\ activations' = [activations EXCEPT
                                 ![i] = [pc |-> "render",
                                         left |-> IF outcome = "rounds1" THEN 2 ELSE 4]]
            /\ statusType' = "loading"
            /\ UNCHANGED <<isDebating, controlsEnabled, debatesStarted,
                           ignoredTriggers, lastOutcome>>
       ELSE IF outcome = "notOk"
       THEN /\ activations' = [activations EXCEPT ![i].pc = "errorBody"]
            /\ UNCHANGED <<isDebating, controlsEnabled, statusType, debatesStarted,
                           ignoredTriggers, lastOutcome>>
       ELSE Finish(i, "error")
    /\ ClientServerIdle

\* The body of a non-ok answer has been read (or could not be parsed): the
\* error is thrown.
ErrorBodyRead(i) ==
    /\ i \in 1..Len(activations)
    /\ activations[i].pc = "errorBody"
    /\ Finish(i, "error")
    /\ ClientServerIdle

\* A sleep of the display loop of activation i is over.
SleepElapsed(i) ==
    /\ i \in 1..Len(activations)
    /\ activations[i].pc = "render"
    /\ IF activations[i].left > 1
       THEN /\ activations' = [activations EXCEPT ![i].left = @ - 1]
            /\ UNCHANGED <<isDebating, controlsEnabled, statusType, debatesStarted,
                           ignoredTriggers, lastOutcome>>
       ELSE Finish(i, "success")
    /\ ClientServerIdle

ClientInit ==
    /\ variant \in {"groq", "openrouter"}
    /\ CallIdle
    /\ ServerIdle
    /\ apiKeyConfigured \in BOOLEAN

ClientNext ==
    \/ \E topic \in ClientTopics : Click(topic)
    \/ \E topic \in ClientTopics : EnterKey(topic)
    \/ \E i \in 1..MaxDebatesStarted, outcome \in HealthOutcomes : HealthAnswered(i, outcome)
    \/ \E i \in 1..MaxDebatesStarted, outcome \in ClientDebateOutcomes :
          DebateAnswered(i, outcome)
    \/ \E i \in 1..MaxDebatesStarted : ErrorBodyRead(i)
    \/ \E i \in 1..MaxDebatesStarted : SleepElapsed(i)

SpecClient == ClientInit /\ [][ClientNext]_vars

TypeOK ==
    /\ variant \in {"groq", "openrouter"}
    /\ pc \in {"none", "fetch", "await", "delay", "done"}
    /\ calls \in Nat
    /\ (pc \in {"fetch", "await", "delay"}) => stack # <<>>
    /\ hpc \in {"idle", "awaitPro", "awaitCon", "responded"}
    /\ cur \in {"A", "B"}

(***************************************************************************)
(* Claims                                                                 *)
(***************************************************************************)
GroqDone == variant = "groq" /\ pc = "done"
MalformedBodies == Bodies \ {"content"}
\* The order in which one invocation visits models: the start alias, then
\* the fallback order without it.
VisitOrder(start) == <<start>> \o SelectSeq(MODEL_FALLBACK_ORDER, LAMBDA m : m # start)
SeqRange(s) == {s[i] : i \in 1..Len(s)}

\* C1 (as claimed): in callGroq, a remote call is never issued for an alias
\* that is already in a tried set of the invocation.
C1_NoCallToTriedAlias ==
    [][(variant = "groq" /\ pc = "fetch" /\ pc' = "await")
         => \A i \in 1..Len(stack) : ~SetHas(stack[i].tried, Top.model)]_vars

\* C2 (as claimed): in callGroq, a transport failure at attempt index
\* MAX_RETRIES on the current model (start or fallback) ends the invocation
\* with that transport failure.
C2_LastTransportFailureIsTerminal ==
    [][(variant = "groq" /\ pc = "await" /\ transportFailures' = transportFailures + 1
          /\ Top.attempt = MAX_RETRIES)
         => (pc' = "done" /\ result'.type = "throw"
               /\ result'.error.kind = "transport"
               /\ result'.error.model = Top.model)]_vars

\* C3: for k in 0..3, after k transport failures and nothing else the
\* invocation is still going to call the start model, and when call k+1 then
\* answers ok with text, the invocation has returned that text after k+1
\* calls, all to the start model, without fallback.
C3_RetryThenSuccess ==
    \A k \in 0..MAX_RETRIES :
        /\ (calls = k /\ transportFailures = k)
             => (pc \in {"fetch", "delay"} /\ result = NoResult
                   /\ Top.model = startModel)
        /\ (calls = k + 1 /\ transportFailures = k /\ lastCall.outcome = "content")
             => (/\ pc = "done"
                 /\ result = [type |-> "return", value |-> <<"content", startModel>>,
                              model |-> startModel]
                 /\ callsTo[startModel] = k + 1
                 /\ rejectedBy = <<>>)
C3_Witness ==
    /\ variant = "groq" /\ pc = "done" /\ calls = MAX_RETRIES + 1
    /\ transportFailures = MAX_RETRIES /\ lastCall.outcome = "content"
    /\ result.type = "return"

C5_AtMost24Calls ==
    variant = "groq" => calls <= (MAX_RETRIES + 1) * Len(MODEL_FALLBACK_ORDER)

\* C6: in callGroq, when the first k models (k in 0..5) each answered
\* 404/429/503 on their only call, the models called are the first ones of
\* the visit order (start alias, then the fallback order skipping it); for a
\* registered start alias the invocation goes on to the next model of that
\* order, and when that model answers ok with text, its text is returned
\* after exactly k+1 calls.
C6_FallbackThenSuccess ==
    variant = "groq" =>
    \A k \in 0..(Len(MODEL_FALLBACK_ORDER) - 1) :
        /\ (calls = k /\ Len(rejectedBy) = k /\ startModel \in FREE_MODELS)
             => (/\ pc = "fetch" /\ result = NoResult
                 /\ rejectedBy = SubSeq(VisitOrder(startModel), 1, k)
                 /\ Top.model = VisitOrder(startModel)[k + 1])
        /\ (calls = k + 1 /\ Len(rejectedBy) = k /\ lastCall.outcome = "content")
             => (/\ pc = "done"
                 /\ rejectedBy \o <<lastCall.model>>
                      = SubSeq(VisitOrder(startModel), 1, k + 1)
                 /\ result = [type |-> "return",
                              value |-> <<"content", lastCall.model>>,
                              model |-> lastCall.model])
C6_Witness ==
    /\ GroqDone /\ startModel = "llama33" /\ calls = 3
    /\ rejectedBy = <<"llama33", "llama32">>
    /\ lastCall = [model |-> "llama3", outcome |-> "content", status |-> 200]
    /\ result.type = "return" /\ result.model = "llama3"

\* C7 (as claimed): when callGroq returns success, the tried set of the
\* returning activation holds exactly the aliases that answered 404/429/503
\* and not the alias whose response is returned; it never holds an alias twice.
C7_TriedSetOnSuccess ==
    (GroqDone /\ result.type = "return") =>
        /\ SeqRange(Top.tried) = SeqRange(rejectedBy)
        /\ ~SetHas(Top.tried, result.model)
        /\ Cardinality(SeqRange(Top.tried)) = Len(Top.tried)

\* C8: in callGroq, an ok response without the generated text ends the
\* invocation with a terminal failure: no call, wait or fallback follows it;
\* on the first attempt that is exactly one remote call.
C8_MalformedIsTerminal ==
    (variant = "groq" /\ lastCall.status = 200 /\ lastCall.outcome \in MalformedBodies)
        => (/\ pc = "done"
            /\ result.type = "throw"
            /\ result.error.kind = "malformed"
            /\ result.error.model = lastCall.model
            /\ (transportFailures = 0 /\ rejectedBy = <<>>) => calls = 1)
C8_Witness ==
    /\ GroqDone /\ lastCall.outcome = "noChoices"
    /\ transportFailures >= 1 /\ Len(rejectedBy) >= 1
    /\ result.type = "throw"

\* C9 (as claimed): in callOpenRouter, an ok response without the generated
\* text ends the call with a terminal failure; it is never retried (one
\* remote call when nothing failed before) and never returned as a result.
C9_ORMalformedIsTerminal ==
    (variant = "openrouter" /\ lastCall.status = 200
       /\ lastCall.outcome \in {"noChoices", "noMessage", "noContent"})
        => (/\ pc = "done"
            /\ result.type = "throw"
            /\ (transportFailures = 0) => calls = 1)

\* C10: in callGroq with a registered start alias, while every call so far
\* answered 404/429/503 the invocation moves on to a model not yet called,
\* until after exactly 6 calls, one per alias of MODEL_FALLBACK_ORDER, it ends
\* with a server-rejection failure carrying the last model's status.
C10_ExhaustedFallback ==
    (variant = "groq" /\ startModel \in FREE_MODELS
       /\ calls = Len(rejectedBy) /\ transportFailures = 0 /\ lastCall.outcome # "none")
        => IF calls < Len(MODEL_FALLBACK_ORDER)
           THEN pc = "fetch" /\ callsTo[Top.model] = 0
           ELSE /\ calls = Len(MODEL_FALLBACK_ORDER)
                /\ \A m \in FREE_MODELS : callsTo[m] = 1
                /\ pc = "done"
                /\ result = [type |-> "throw",
                             error |-> [name |-> "Error", code |-> "none",
                                        kind |-> "rejection",
                                        status |-> lastCall.status,
                                        model |-> lastCall.model]]
                /\ lastCall.model = rejectedBy[Len(rejectedBy)]
C10_Witness ==
    /\ GroqDone /\ startModel = "mixtral" /\ calls = 6 /\ Len(rejectedBy) = 6
    /\ result.type = "throw" /\ result.error.kind = "rejection"
    /\ result.error.model = "gemma2"

\* A callGroq step in which the current model answers 404, 429 or 503.
EligibleRejection ==
    /\ variant = "groq" /\ pc = "await"
    /\ lastCall'.outcome = "rejected"
    /\ lastCall'.status \in {404, 429, 503}
\* Positions of MODEL_FALLBACK_ORDER that are neither the current alias nor
\* in the current activation's tried set.
UntriedAfterCurrent ==
    {j \in 1..Len(MODEL_FALLBACK_ORDER) :
        /\ MODEL_FALLBACK_ORDER[j] # Top.model
        /\ ~SetHas(Top.tried, MODEL_FALLBACK_ORDER[j])}
\* The step enters a new activation for a fallback candidate.
FellBack ==
    /\ pc' = "fetch"
    /\ Len(stack') = Len(stack) + 1
    /\ \E j \in UntriedAfterCurrent : stack'[Len(stack')].model = MODEL_FALLBACK_ORDER[j]

\* C11: a non-ok response with a status other than 404, 429, 503 ends the
\* invocation at once with a server-rejection failure for that model and
\* status; no retry, fallback or further remote call follows.
C11_OtherRejectionIsTerminal ==
    (lastCall.outcome = "rejected" /\ lastCall.status \notin {404, 429, 503})
        => (/\ pc = "done"
            /\ result.type = "throw"
            /\ result.error.kind = "rejection"
            /\ result.error.status = lastCall.status
            /\ result.error.model = lastCall.model)
C11_Witness ==
    /\ GroqDone /\ lastCall.outcome = "rejected" /\ lastCall.status = 500
    /\ Len(rejectedBy) >= 1 /\ transportFailures >= 1
    /\ result.type = "throw"

C13_FirstUntriedIsChosen ==
    [][/\ (EligibleRejection /\ ~SetHas(Top.tried, Top.model)
             /\ Top.model \in FREE_MODELS \cup InheritedKeys)
          => IF UntriedAfterCurrent = {}
             THEN Len(stack') <= Len(stack) /\ pc' # "fetch"
             ELSE LET first == CHOOSE j \in UntriedAfterCurrent :
                                  \A k \in UntriedAfterCurrent : j <= k
                  IN /\ Len(stack') = Len(stack) + 1
                     /\ stack'[Len(stack')].model = MODEL_FALLBACK_ORDER[first]
                     /\ stack'[Len(stack')].model # Top.model
                     /\ ~SetHas(Top.tried, stack'[Len(stack')].model)
       /\ (variant = "groq" /\ Len(stack') > Len(stack))
          => /\ EligibleRejection
             /\ UntriedAfterCurrent # {}
             /\ \A j \in 1..Len(MODEL_FALLBACK_ORDER) :
                   (MODEL_FALLBACK_ORDER[j] = stack'[Len(stack')].model)
                       => \A k \in 1..(j - 1) : k \notin UntriedAfterCurrent]_vars
C13_Witness ==
    /\ variant = "groq" /\ startModel = "mixtral"
    /\ Len(stack) = 2 /\ Top.model = "llama33" /\ pc = "fetch"
    /\ stack[1].tried = <<"mixtral">>

\* C14: every callGroq activation counts its own attempts from 0: the calls
\* made to its model are its attempt index (plus the one just issued), the
\* waits spent on its model are 1000 * (2^attempt - 1) ms, its first wait is
\* 1000 ms and it gets up to MAX_RETRIES + 1 calls, whatever the activations
\* below it have spent.
C14_RetryCountResetsOnFallback ==
    variant = "groq" =>
        /\ \A i \in 1..Len(stack) :
              LET issued == IF i = Len(stack) /\ pc = "fetch" THEN 0 ELSE 1
              IN /\ stack[i].attempt \in 0..3
                 /\ callsTo[stack[i].model] = stack[i].attempt + issued
                 /\ waitedOn[stack[i].model] = 1000 * ((2 ^ stack[i].attempt) - 1)
        /\ (pc = "delay" /\ waitedOn[Top.model] = 0) => delayMs = 1000
C14_Witness ==
    /\ variant = "groq" /\ Len(stack) >= 2 /\ pc = "await"
    /\ stack[1].attempt = 3
    /\ Top.attempt = 3 /\ callsTo[Top.model] = 4 /\ waitedOn[Top.model] = 7000

\* C15: under the fairness of FairSpec every top-level invocation ends,
\* with generated text or with a terminal failure.
C15_Terminates == <>(pc = "done" /\ result.type \in {"return", "throw"})
C15_Witness ==
    /\ variant = "groq" /\ pc = "done" /\ result.type = "throw"
    /\ result.error.kind = "transport" /\ calls > (MAX_RETRIES + 1) * 2

\* The records a handler holds after the first n rounds: round j of them holds
\* the texts answered to the Pro and the Con prompt of round j.
IsRoundsPrefix(rounds, n) ==
    /\ Len(rounds) = n
    /\ \A j \in 1..n :
          /\ rounds[j].round = j
          /\ rounds[j].pro.of = <<"pro", j>>
          /\ rounds[j].con.of = <<"con", j>>
CallInFlight == pc \in {"fetch", "await", "delay"}

\* C16: a debate's orchestrator calls are made one at a time in the order
\* Pro(1), Con(1), Pro(2), Con(2), ...: call number k is for side Pro when k
\* is odd and Con when even, of round (k+1) div 2; a call is made only when
\* the one before has returned; the prompt of Con(i) embeds the text returned
\* for Pro(i), and the prompts of round i embed the Pro and Con texts of
\* rounds 1..i-1.
C16_StrictCallOrder ==
    /\ Len(issuedPrompts) = orchCalls
    /\ \A k \in 1..Len(issuedPrompts) :
          LET p == issuedPrompts[k]
              i == (k + 1) \div 2
          IN /\ p.round = i
             /\ p.side = (IF k % 2 = 1 THEN "pro" ELSE "con")
             /\ IsRoundsPrefix(p.context, i - 1)
             /\ (p.side = "con") => p.pro.of = <<"pro", i>>
             /\ (k > 1) => SubSeq(p.context, 1, Len(issuedPrompts[k - 1].context))
                              = issuedPrompts[k - 1].context
    /\ CallInFlight =>
          /\ hpc = (IF orchCalls % 2 = 1 THEN "awaitPro" ELSE "awaitCon")
          /\ prompt = issuedPrompts[orchCalls]
          /\ round = (orchCalls + 1) \div 2
          /\ IsRoundsPrefix(debateRounds, round - 1)
C16_Witness ==
    /\ variant = "groq" /\ hpc = "awaitCon" /\ pc = "await"
    /\ orchCalls = 4 /\ round = 2
    /\ issuedPrompts[4].pro.of = <<"pro", 2>>
    /\ Len(issuedPrompts[4].context) = 1

\* C17: from the moment an orchestrator call of a debate has ended in a
\* failure, the only thing that happens is the error response: status 500
\* with the error message and no rounds, and no further orchestrator call.
C17_FailureFailsTheDebate ==
    [][(hpc \in {"awaitPro", "awaitCon"} /\ pc = "done" /\ result.type = "throw")
         => /\ orchCalls' = orchCalls
            /\ hpc' = "responded"
            /\ res'.status = 500
            /\ DOMAIN res'.body = {"error", "details"}
            /\ res'.body.details.kind = result.error.kind
            /\ res'.body.details.status = result.error.status
            /\ UNCHANGED cvars]_vars
C17_Witness ==
    /\ hpc = "responded" /\ res.status = 500
    /\ result.type = "throw" /\ Len(debateRounds) >= 1
    /\ req.rounds = 2 /\ orchCalls = 4

\* C19: an orchestrator call the handler has just made is a single
\* activation for the request's start alias (the default alias when the
\* request names none) with attempt 0 and an empty tried set, whatever the
\* earlier calls of the debate went through; its first remote call goes to
\* that alias.
C19_EveryCallStartsFresh ==
    (hpc \in {"awaitPro", "awaitCon"}) =>
        LET alias == IF req.model # "undefined" THEN req.model
                     ELSE IF variant = "groq" THEN "llama33" ELSE "llama"
        IN /\ startModel = alias
           /\ (calls = 0) =>
                 (/\ pc = "fetch"
                  /\ stack = <<[model |-> alias, attempt |-> 0, tried |-> <<>>]>>
                  /\ rejectedBy = <<>> /\ transportFailures = 0)
           /\ (calls = 1 /\ pc = "await") =>
                 (callsTo[alias] = 1 /\ Len(stack) = 1 /\ stack[1].tried = <<>>)
C19_Witness ==
    /\ variant = "groq" /\ hpc = "awaitCon" /\ pc = "await" /\ calls = 1
    /\ faultsBefore >= 1 /\ proResponse.text # <<"content", startModel>>
    /\ callsTo[startModel] = 1

\* C20 (as claimed): a request with a blank topic, rounds outside 1..10, an
\* unknown response length or no API key gets an error response and causes
\* no orchestrator call and no remote call; no debate runs more than 10
\* rounds (20 orchestrator calls).
C20_InvalidRequestMakesNoCall ==
    /\ (/\ hpc # "idle"
        /\ \/ req.topic \in {"", " "}
           \/ req.rounds \notin 1..10
           \/ req.responseLength \notin {"short", "medium", "long"}
           \/ ~apiKeyConfigured)
         => (/\ hpc = "responded"
             /\ res.status \in {400, 429, 500}
             /\ orchCalls = 0
             /\ calls = 0)
    /\ orchCalls <= 20
    /\ Len(debateRounds) <= 10

\* The state of call id: the running one's is in the call variables, the
\* other one's is parked.
CallOf(id) == IF cur = id THEN Suspend ELSE parked

\* C18: with two calls interleaved at their awaits, the state of an entered
\* call (activations with model, attempt and tried set; calls made; result)
\* changes only in a step that call itself takes: the other call's steps and
\* the switches between them leave it as it is.
C18_CallsDoNotInterfere ==
    [][\A id \in {"A", "B"} :
          (CallOf(id) # NoneParked /\ CallOf(id)' # CallOf(id))
              => (cur = id /\ cur' = id)]_vars
C18_Witness ==
    /\ variant = "groq" /\ cur = "B" /\ pc = "delay"
    /\ parked.pc = "await" /\ Len(parked.stack) = 2
    /\ parked.stack[1].tried = <<parked.startModel>>
    /\ Top.tried = <<>>

\* C21: a debate answered with its transcript was one of n rounds, 1 <= n <=
\* 10, made exactly 2n orchestrator calls, and its transcript has exactly n
\* entries; entry i is numbered i and holds the texts returned to the Pro and
\* the Con prompt of round i. A valid request gets another answer only when a
\* call has thrown.
C21_CompleteTranscript ==
    /\ (hpc = "responded" /\ res.status = 200) =>
          /\ req.rounds \in 1..10
          /\ orchCalls = 2 * req.rounds
          /\ res.body.totalRounds = req.rounds
          /\ Len(res.body.rounds) = req.rounds
          /\ \A i \in 1..Len(res.body.rounds) :
                /\ res.body.rounds[i].round = i
                /\ res.body.rounds[i].pro.of = <<"pro", i>>
                /\ res.body.rounds[i].con.of = <<"con", i>>
                /\ issuedPrompts[2 * i - 1].side = "pro"
                /\ issuedPrompts[2 * i].side = "con"
    /\ (hpc = "responded" /\ res.status # 200 /\ orchCalls > 0) =>
          (pc = "done" /\ result.type = "throw")
C21_Witness ==
    /\ hpc = "responded" /\ res.status = 200
    /\ req.rounds = 2 /\ orchCalls = 4 /\ Len(res.body.rounds) = 2
    /\ faultsBefore + CallFaults >= 1

\* C22: within one top-level callGroq invocation no alias receives more than
\* MAX_RETRIES + 1 = 4 remote calls, also when control returns to an earlier
\* model's retry loop after a fallback model has failed.
C22_AtMostFourCallsPerAlias ==
    variant = "groq" => \A m \in Aliases : callsTo[m] <= 4
C22_Witness ==
    /\ variant = "groq" /\ pc = "done" /\ result.type = "throw"
    /\ callsTo[startModel] = 4
    /\ \E m \in Aliases \ {startModel} : callsTo[m] = 4
    /\ Len(rejectedBy) >= 1

\* A request is taken up in this step.
RequestArrives == hpc = "idle" /\ hpc' # "idle"

\* C23 (as claimed): the count stored for a client never exceeds
\* MAX_DEBATES_PER_WINDOW, so no more than that many requests are admitted
\* during the lifetime of one limiter entry, including a request arriving
\* exactly RATE_LIMIT_WINDOW_MS after the entry's timestamp.
C23_CountWithinQuota ==
    \A ip \in DOMAIN debateRateLimiter :
        debateRateLimiter[ip].count <= MaxDebatesPerWindow

\* C24: a request answered 429 leaves its client's limiter entry (count and
\* timestamp) as it was and causes no orchestrator call and no remote call.
C24_RejectedRequestChangesNothing ==
    [][(RequestArrives /\ res'.status = 429) =>
          /\ req'.ip \in DOMAIN debateRateLimiter
          /\ req'.ip \in DOMAIN debateRateLimiter'
          /\ debateRateLimiter'[req'.ip] = debateRateLimiter[req'.ip]
          /\ orchCalls' = 0 /\ calls' = 0 /\ pc' = "none"
          /\ hpc' = "responded"]_vars
C24_Witness ==
    /\ hpc = "responded" /\ res.status = 429
    /\ req.topic = "AI"
    /\ req.ip \in DOMAIN debateRateLimiter
    /\ now = debateRateLimiter[req.ip].timestamp + 30000
    /\ orchCalls = 0 /\ calls = 0

\* C25: a request of a client arriving RATE_LIMIT_WINDOW_MS or more after
\* the timestamp of that client's limiter entry is not answered 429.
C25_AdmittedAfterWindow ==
    [][(/\ RequestArrives
        /\ req'.ip \in DOMAIN debateRateLimiter
        /\ now - debateRateLimiter[req'.ip].timestamp >= 60000)
          => res'.status # 429]_vars
C25_Witness ==
    /\ hpc # "idle" /\ res.status # 429
    /\ req.ip \in DOMAIN debateRateLimiter
    /\ debateRateLimiter[req.ip].count = MaxDebatesPerWindow + 1
    /\ now - debateRateLimiter[req.ip].timestamp = 60000
    /\ \E ip \in DOMAIN debateRateLimiter : ip # req.ip

\* C26: on one page at most one debate request is in flight and at most one
\* activation of startDebate exists: a trigger arriving while isDebating is
\* true starts nothing; isDebating is true exactly while an activation is
\* running, and the controls are enabled exactly when it is false, so every
\* end of an activation, success or error, has set it back.
C26_OneDebateInFlight ==
    /\ DebateRequestsInFlight <= 1
    /\ Len(activations) <= 1
    /\ isDebating = (activations # << >>)
    /\ controlsEnabled = ~isDebating
    /\ (lastOutcome # "none" /\ activations = << >>) => statusType \in {"success", "error"}
C26_Witness ==
    /\ ignoredTriggers >= 2
    /\ debatesStarted = 2
    /\ lastOutcome = "error"
    /\ DebateRequestsInFlight = 1
    /\ isDebating

====
